---- MODULE Spec2Model ----
(***************************************************************************)
(* A model of pywikibot.site._basesite.BaseSite:                           *)
(*   - lock_page / unlock_page on the site's Condition (_pagemutex) and    *)
(*     its set _locked_pages,                                              *)
(*   - __getstate__ / __setstate__ (pickling of a site),                   *)
(*   - __init__ (resolution of the site code against the family),          *)
(*   - sametitle.                                                          *)
(* Strings whose case or characters matter are sequences of one-character  *)
(* strings.                                                                *)
(***************************************************************************)
EXTENDS Integers, Sequences, FiniteSets, TLC

\* Number of threads that use one site object.
NThreads == 3

Threads == 1 .. NThreads

\* Number of threads that call the methods without following the protocol.
NCallers == 2

\* mutex value when no thread owns the Condition's lock
NoThread == 0

\* Page titles (without section) and section fragments of the pages used.
Titles == {"X", "Y"}

Sections == {"", "s"}

\* A page object: a title and a section fragment.
Pages == Titles \X Sections

VARIABLES
    locked,     \* self._locked_pages
    mutex,      \* owner of the lock inside self._pagemutex, or NoThread
    waiting,    \* threads in the waiter list of self._pagemutex (not notified)
    pc,         \* pc[t]: where thread t is inside lock_page / unlock_page
    arg,        \* arg[t]: the title of the page of the call t is in
    blk,        \* blk[t]: the block argument of t's lock_page call
    result,     \* result[t]: how t's last lock_page ended
    holds,      \* holds[t]: titles t locked and has not unlocked since
    pickled,    \* <<the attribute dict __getstate__ returned>>, or <<>>
    restored,   \* <<the site __setstate__ rebuilt>>, or <<>>
    request,    \* the arguments of BaseSite(code, fam), with the family's data
    mylang,     \* pywikibot.config.mylang
    site,       \* what BaseSite.__init__ made of the request
    titles,     \* the two arguments of sametitle
    same        \* <<sametitle(t1, t2), sametitle(t2, t1)>>, or <<>>

lockVars == <<locked, mutex, waiting, pc, arg, blk, result, holds>>

siteVars == <<request, mylang, site>>

titleVars == <<titles, same>>

otherVars == <<pickled, restored, request, mylang, site, titles, same>>

vars ==
    <<locked, mutex, waiting, pc, arg, blk, result, holds, pickled, restored,
      request, mylang, site, titles, same>>

----------------------------------------------------------------------------
\* page.title(with_section=False): the title without the section fragment.
PageTitle(page) == page[1]

\* A loop test that finds no title held.
TitleHeldNever(title, lk) == FALSE

\* The test of the while loop of lock_page: title in self._locked_pages.

TitleHeld(title, lk) == title \in lk

\* A raise that leaves the mutex with the raising thread.
MutexKeptOnRaise(t) == t

\* Owner of the mutex after `raise PageInUse` leaves the with block.

MutexAfterRaise(t) == NoThread

\* A discard that removes nothing.
DiscardNothing(lk, title) == lk

\* self._locked_pages.discard(title)

Discard(lk, title) == lk \ {title}

\* An unlock_page that wakes nobody.
NotifyNone(ws) == {}

\* notify() in place of notify_all(): the first waiter only.
NotifyOne(ws) == IF ws = {} THEN {} ELSE {CHOOSE w \in ws : \A v \in ws : w <= v}

\* The waiters notify_all() wakes: all of them.
NotifyAll(ws) == ws

InitLock ==
    /\ locked = {}
    /\ mutex = NoThread
    /\ waiting = {}
    /\ pc = [t \in Threads |-> "idle"]
    /\ arg = [t \in Threads |-> "X"]
    /\ blk = [t \in Threads |-> TRUE]
    /\ result = [t \in Threads |-> "none"]
    /\ holds = [t \in Threads |-> {}]

\* The call of thread t returns (or raises): its locals are gone.
Return(t) ==
    /\ pc' = [pc EXCEPT ![t] = "idle"]
    /\ arg' = [arg EXCEPT ![t] = "X"]
    /\ blk' = [blk EXCEPT ![t] = TRUE]

\* A thread calls lock_page(page, block): line 315, then it is at the with.
lock_page(t, page, block) ==
    /\ pc[t] = "idle"
    /\ pc' = [pc EXCEPT ![t] = "lock_enter"]
    /\ arg' = [arg EXCEPT ![t] = PageTitle(page)]
    /\ blk' = [blk EXCEPT ![t] = block]
    /\ result' = [result EXCEPT ![t] = "none"]
    /\ UNCHANGED <<locked, mutex, waiting, holds>>

\* `with self._pagemutex:` of lock_page acquires the lock of the Condition.
LockAcquire(t) ==
    /\ pc[t] = "lock_enter"
    /\ mutex = NoThread
    /\ mutex' = t
    /\ pc' = [pc EXCEPT ![t] = "lock_loop"]
    /\ UNCHANGED <<locked, waiting, arg, blk, result, holds>>

\* One pass of `while title in self._locked_pages`, with the mutex held:
\* raise PageInUse, or wait(), or leave the loop, add the title and return.
LockLoop(t) ==
    /\ pc[t] = "lock_loop"
    /\ mutex = t
    /\ IF TitleHeld(arg[t], locked)
       THEN IF ~blk[t]
            THEN /\ mutex' = MutexAfterRaise(t)
                 /\ result' = [result EXCEPT ![t] = "PageInUse"]
                 /\ Return(t)
                 /\ UNCHANGED <<locked, waiting, holds>>
            ELSE /\ mutex' = NoThread
                 /\ waiting' = waiting \cup {t}
                 /\ pc' = [pc EXCEPT ![t] = "lock_wait"]
                 /\ UNCHANGED <<locked, result, holds, arg, blk>>
       ELSE /\ locked' = locked \cup {arg[t]}
            /\ mutex' = NoThread
            /\ result' = [result EXCEPT ![t] = "ok"]
            /\ holds' = [holds EXCEPT ![t] = @ \cup {arg[t]}]
            /\ Return(t)
            /\ UNCHANGED waiting

\* A notified thread re-acquires the mutex before wait() returns.
WaitReacquire(t) ==
    /\ pc[t] = "lock_wake"
    /\ mutex = NoThread
    /\ mutex' = t
    /\ pc' = [pc EXCEPT ![t] = "lock_loop"]
    /\ UNCHANGED <<locked, waiting, arg, blk, result, holds>>

\* A thread calls unlock_page(page): it is at the with of line 331.
unlock_page(t, page) ==
    /\ pc[t] = "idle"
    /\ pc' = [pc EXCEPT ![t] = "unlock_enter"]
    /\ arg' = [arg EXCEPT ![t] = PageTitle(page)]
    /\ UNCHANGED <<locked, mutex, waiting, blk, result, holds>>

\* `with self._pagemutex:` of unlock_page.
UnlockAcquire(t) ==
    /\ pc[t] = "unlock_enter"
    /\ mutex = NoThread
    /\ mutex' = t
    /\ pc' = [pc EXCEPT ![t] = "unlock_body"]
    /\ UNCHANGED <<locked, waiting, arg, blk, result, holds>>

\* discard the title, notify_all, leave the with block.
UnlockBody(t) ==
    /\ pc[t] = "unlock_body"
    /\ mutex = t
    /\ locked' = Discard(locked, arg[t])
    /\ waiting' = waiting \ NotifyAll(waiting)
    /\ pc' = [u \in Threads |->
                IF u = t THEN "idle"
                ELSE IF u \in NotifyAll(waiting) THEN "lock_wake"
                ELSE pc[u]]
    /\ mutex' = NoThread
    /\ holds' = [holds EXCEPT ![t] = @ \ {arg[t]}]
    /\ arg' = [arg EXCEPT ![t] = "X"]
    /\ UNCHANGED <<blk, result>>

\* The steps a thread takes inside the two methods.
Inside(t) ==
    \/ LockAcquire(t)
    \/ LockLoop(t)
    \/ WaitReacquire(t)
    \/ UnlockAcquire(t)
    \/ UnlockBody(t)

----------------------------------------------------------------------------
\* Callers that follow the protocol of the docstrings: a thread unlocks only
\* pages it has locked, and locks a page it does not hold, taking titles in
\* increasing order when it holds several.
TitleRank(title) == IF title = "X" THEN 1 ELSE 2

MayLock(t, title) == \A h \in holds[t] : TitleRank(h) < TitleRank(title)

CallLock(t) ==
    \E page \in Pages, block \in BOOLEAN :
        /\ MayLock(t, PageTitle(page))
        /\ lock_page(t, page, block)

CallUnlock(t) ==
    \E page \in Pages :
        /\ PageTitle(page) \in holds[t]
        /\ unlock_page(t, page)

\* Callers of any kind: an idle thread may call either method on any page.
\* NCallers of the threads make such calls.
Callers == 1 .. NCallers

AnyLock(t) ==
    \E page \in Pages, block \in BOOLEAN : lock_page(t, page, block)

AnyUnlock(t) ==
    \E page \in Pages : unlock_page(t, page)

\* Threads that each loop lock_page then unlock_page of the page they
\* locked: a thread holds at most one title.
LoopLock(t) ==
    \E page \in Pages, block \in BOOLEAN :
        /\ holds[t] = {}
        /\ lock_page(t, page, block)

----------------------------------------------------------------------------
\* Pickling.  The attributes of the site that matter here.
SiteDict ==
    [_pagemutex |-> <<mutex, waiting>>, _locked_pages |-> locked]

\* __getstate__: a copy of __dict__ without _pagemutex (and without
\* _throttle and _iw_sites, which this model does not hold).
GetStateDict(d) == [_locked_pages |-> d._locked_pages]

\* __setstate__: the attributes are taken over, and a new Condition made.
SetStateDict(attrs) ==
    [_locked_pages |-> attrs._locked_pages,
     _pagemutex |-> <<NoThread, {}>>,
     result |-> "none"]

\* pickled and restored are empty until the site is pickled / restored,
\* and then hold the one attribute dict / restored site.
InitPickle ==
    /\ pickled = <<>>
    /\ restored = <<>>

\* pickle.dumps(site) calls __getstate__ and serialises what it returns.
getstate ==
    /\ pickled = <<>>
    /\ pickled' = <<GetStateDict(SiteDict)>>
    /\ UNCHANGED restored
    /\ UNCHANGED <<lockVars, siteVars, titleVars>>

\* pickle.loads builds the restored site with __setstate__.
setstate ==
    /\ pickled # <<>>
    /\ restored = <<>>
    /\ restored' = <<SetStateDict(pickled[1])>>
    /\ UNCHANGED pickled
    /\ UNCHANGED <<lockVars, siteVars, titleVars>>

\* lock_page(page, block=False) on the restored site, by its only user.
RestoredLock ==
    /\ restored # <<>>
    /\ restored[1].result = "none"
    /\ \E page \in Pages :
          IF TitleHeld(PageTitle(page), restored[1]._locked_pages)
          THEN restored' = <<[restored[1] EXCEPT !.result = "PageInUse"]>>
          ELSE restored' = <<[restored[1] EXCEPT
                                !._locked_pages = @ \cup {PageTitle(page)},
                                !.result = "ok"]>>
    /\ UNCHANGED pickled
    /\ UNCHANGED <<lockVars, siteVars, titleVars>>

----------------------------------------------------------------------------
\* No site is being constructed and no titles are compared.
NoRequest ==
    [code |-> <<>>,
     family |-> [name |-> <<>>, langs |-> {}, obsolete |-> <<>>],
     is_default_family |-> FALSE]

NoSite == [status |-> "none", code |-> <<>>, obsolete |-> FALSE]

InitNoSite ==
    /\ request = NoRequest
    /\ mylang = <<>>
    /\ site = NoSite

InitNoTitles ==
    /\ titles = <<>>
    /\ same = <<>>

Init ==
    /\ InitLock
    /\ InitPickle
    /\ InitNoSite
    /\ InitNoTitles

\* Callers that follow the protocol.
Next ==
    \/ \E t \in Threads : CallLock(t) /\ UNCHANGED otherVars
    \/ \E t \in Threads : CallUnlock(t) /\ UNCHANGED otherVars
    \/ \E t \in Threads : Inside(t) /\ UNCHANGED otherVars

Spec == Init /\ [][Next]_vars

NextLoop ==
    \/ \E t \in Threads : LoopLock(t) /\ UNCHANGED otherVars
    \/ \E t \in Threads : CallUnlock(t) /\ UNCHANGED otherVars
    \/ \E t \in Threads : Inside(t) /\ UNCHANGED otherVars

NextAny ==
    \/ \E t \in Callers : AnyLock(t) /\ UNCHANGED otherVars
    \/ \E t \in Callers : AnyUnlock(t) /\ UNCHANGED otherVars
    \/ \E t \in Threads : Inside(t) /\ UNCHANGED otherVars

AnySpec == Init /\ [][NextAny]_vars

NextPickle ==
    \/ Next
    \/ getstate
    \/ setstate
    \/ RestoredLock

PickleSpec == Init /\ [][NextPickle]_vars

----------------------------------------------------------------------------
\* Scheduling.  Every thread that can take a step inside a method eventually
\* takes one.
ThreadStep(t) == Inside(t) /\ UNCHANGED otherVars

WeakFair == \A t \in Threads : WF_vars(ThreadStep(t))

\* Thread t takes the lock of the Condition.
MutexAcquire(t) ==
    /\ LockAcquire(t) \/ WaitReacquire(t) \/ UnlockAcquire(t)
    /\ UNCHANGED otherVars

\* A thread blocked on the lock of the Condition gets it when the lock is
\* free again and again: the lock does not starve an acquirer.
MutexFair == \A t \in Threads : SF_vars(MutexAcquire(t))

\* Every holder eventually calls unlock_page.
HoldersUnlock == \A t \in Threads : WF_vars(CallUnlock(t) /\ UNCHANGED otherVars)

FairSpec == Spec /\ WeakFair

LoopFairSpec ==
    Init /\ [][NextLoop]_vars /\ WeakFair /\ MutexFair /\ HoldersUnlock

----------------------------------------------------------------------------
\* The threads that hold a title: they locked it and have not unlocked it.
Holders(title) == {t \in Threads : title \in holds[t]}

\* Thread t is inside lock_page(title, block=True).
InBlockingLock(t, title) ==
    /\ pc[t] \in {"lock_enter", "lock_loop", "lock_wait", "lock_wake"}
    /\ arg[t] = title
    /\ blk[t]

\* C1: among threads that lock a page and then unlock it, at most one
\* thread holds a title in every reachable state.
C1_MutualExclusion == \A title \in Titles : Cardinality(Holders(title)) <= 1

\* C1 witness: a thread is at the loop test for a title another thread holds.
C1_Witness ==
    \E t \in Threads, u \in Threads :
        /\ t # u
        /\ "X" \in holds[t]
        /\ pc[u] = "lock_loop" /\ arg[u] = "X" /\ blk[u]

\* The step in which thread t, in lock_page(block=False), is decided.
NonBlockingDecided(t) ==
    (pc[t] = "lock_loop" /\ ~blk[t] /\ pc'[t] # "lock_loop") =>
        /\ pc'[t] = "idle"
        /\ mutex' = NoThread
        /\ waiting' = waiting
        /\ IF arg[t] \in locked
           THEN /\ result'[t] = "PageInUse"
                /\ locked' = locked
                /\ holds' = holds
           ELSE /\ result'[t] = "ok"
                /\ locked' = locked \cup {arg[t]}
                /\ holds'[t] = holds[t] \cup {arg[t]}

\* C2: lock_page(block=False) never waits on the condition, and the locked
\* set at the moment of its test decides it: held, it raises PageInUse,
\* leaves the set as it is and releases the mutex; free, it adds the title.
C2_NonBlocking ==
    /\ [](\A t \in Threads : pc[t] \in {"lock_wait", "lock_wake"} => blk[t])
    /\ [][\A t \in Threads : NonBlockingDecided(t)]_vars

\* C2 witness: B got PageInUse for a title A holds, and the mutex is free.
C2_Witness ==
    \E a \in Threads, b \in Threads :
        /\ a # b
        /\ holds[a] # {}
        /\ result[b] = "PageInUse" /\ pc[b] = "idle"
        /\ mutex = NoThread

\* C3: a restored site holds no locks, so that a non-blocking lock_page on
\* it succeeds.
C3_RestoredHoldsNothing ==
    restored # <<>> =>
        /\ restored[1].result = "none" => restored[1]._locked_pages = {}
        /\ restored[1].result # "PageInUse"

\* C4: every thread in lock_page(title, block=True) eventually holds the
\* title.
C4_EveryCallerAcquires ==
    \A t \in Threads : \A title \in Titles :
        InBlockingLock(t, title) ~> (title \in holds[t])

\* Another thread than t acquires the title.
OtherAcquires(t, title) ==
    \E u \in Threads \ {t} : title \notin holds[u] /\ title \in holds'[u]

\* C4 as amended: a thread stays in lock_page(title, block=True) for ever
\* only if other threads acquire the title again and again.
C4_AcquiresUnlessOvertaken ==
    \A t \in Threads : \A title \in Titles :
        \/ []<>(~InBlockingLock(t, title))
        \/ []<><<OtherAcquires(t, title)>>_vars

\* C4 witness: a thread is suspended in lock_page for a title held by
\* another thread.
C4_Witness ==
    \E t \in Threads, u \in Threads :
        /\ t # u
        /\ pc[t] = "lock_wait" /\ blk[t]
        /\ arg[t] \in holds[u]

\* Locked set and holders agree, and no title has two holders.
LockedIffHeld ==
    \A title \in Titles :
        /\ title \in locked <=> Holders(title) # {}
        /\ Cardinality(Holders(title)) <= 1

\* C8: in every reachable state, whatever the callers do, a title is
\* locked iff some caller holds it, and no title has two holders.
C8_LockedIffHeld == LockedIffHeld

\* The step in which unlock_page of a thread that does not hold the title
\* removes a title that is locked.
ForeignUnlock ==
    \E t \in Threads :
        /\ pc[t] = "unlock_body" /\ pc'[t] = "idle"
        /\ arg[t] \in locked
        /\ arg[t] \notin holds[t]

\* C8 as amended: every step other than an unlock_page of a locked title by
\* a thread that does not hold it keeps the locked set and the holders in
\* agreement.
C8_AgreementKept ==
    [][(LockedIffHeld /\ ~ForeignUnlock) => LockedIffHeld']_vars

\* C8 witness: unlock_page of a title nobody holds has run next to a holder.
C8_Witness ==
    \E t \in Threads, u \in Threads :
        /\ t # u
        /\ pc[t] = "unlock_body" /\ arg[t] \notin locked
        /\ holds[u] # {}
        /\ LockedIffHeld

\* No thread is suspended on the condition for a title that is free.
NoLostWakeup == \A t \in waiting : arg[t] \in locked

\* unlock_page wakes every suspended thread.
WakesAll ==
    \A t \in Threads :
        (pc[t] = "unlock_body" /\ pc'[t] = "idle") =>
            /\ waiting' = {}
            /\ \A u \in waiting : pc'[u] = "lock_wake"

\* A title that is free while a thread is in lock_page(title, block=True)
\* is eventually acquired.
FreeTitleTaken ==
    \A title \in Titles :
        ((title \notin locked) /\ (\E t \in Threads : InBlockingLock(t, title)))
            ~> (Holders(title) # {})

\* A title that is free while a thread woken from its wait for that title
\* is on its way to re-check it is eventually acquired.
ReleasedTitleTaken ==
    \A title \in Titles :
        ((title \notin locked)
            /\ (\E t \in Threads : pc[t] = "lock_wake" /\ arg[t] = title))
            ~> (Holders(title) # {})

\* C9: under weak fairness of the threads, unlock_page wakes all suspended
\* threads, none stays suspended while its title is free, and a title
\* released while threads wait for it is eventually acquired.
C9_NoLostWakeup ==
    /\ []NoLostWakeup
    /\ [][WakesAll]_vars
    /\ ReleasedTitleTaken

\* C9 as amended: the same, for a mutex that does not starve a thread; the
\* thread that acquires the title is any thread inside lock_page for it
\* (a woken thread is one of them).
C9_NoLostWakeupFairMutex ==
    /\ []NoLostWakeup
    /\ [][WakesAll]_vars
    /\ (MutexFair => FreeTitleTaken)

\* C9 witness: a title is released while one thread is suspended for it and
\* another thread is suspended for a different title.
C9_Witness ==
    \E h \in Threads, t \in Threads, u \in Threads :
        /\ pc[h] = "unlock_body" /\ arg[h] \in locked
        /\ t \in waiting /\ arg[t] = arg[h]
        /\ u \in waiting /\ arg[u] # arg[h]

----------------------------------------------------------------------------
\* BaseSite.__init__: the site code against the data of the family.
\* A code is a sequence of characters; the value of an entry of the
\* family's obsolete dict is <<>> for None and <<r>> for the replacement r.

\* Longest requested site code.
MaxCodeLen == 1

CodeChars == {"a", "b", "A", "B"}

StringsUpTo(chars, n) == UNION {[1 .. k -> chars] : k \in 0 .. n}

\* The codes and names the data of a family is made of.
Pool == {<<"a">>, <<"b">>, <<"B">>}

Option(S) == {<<>>} \cup {<<x>> : x \in S}

Families ==
    [name : Pool,
     langs : SUBSET Pool,
     obsolete : UNION {[D -> Option(Pool)] : D \in SUBSET Pool}]

\* Values of config.mylang.
MyLangs == {<<"a">>, <<"b">>}

\* str.lower() and str.upper(), character by character.
LowerChar(c) ==
    CASE c = "A" -> "a"
      [] c = "B" -> "b"
      [] c = "T" -> "t"
      [] OTHER -> c

UpperChar(c) ==
    CASE c = "a" -> "A"
      [] c = "b" -> "B"
      [] c = "t" -> "T"
      [] OTHER -> c

Lower(str) == [i \in 1 .. Len(str) |-> LowerChar(str[i])]

\* A code taken as it is given.
CodeNotLowered(code) == code

\* Lines 49-54: the code is converted to lowercase.

CodeLower(code) == IF Lower(code) # code THEN Lower(code) ELSE code

\* An outdated code that is kept.
ReplacementIgnored(fam, code) == code

\* Line 68: the new code of an outdated code.

Replacement(fam, code) == fam.obsolete[code][1]

\* A shortcut for every family of one language, whatever its name.
OneLanguage(fam) == Cardinality(fam.langs) = 1

\* Lines 79-80: the family has one language, named as the family.

SingleLanguage(fam) == fam.name \in fam.langs /\ Cardinality(fam.langs) = 1

\* Lines 49-90, as a function of the arguments and of config.mylang: the
\* site made (or UnknownSite raised) and the value config.mylang then has.
BaseSiteInit(rq, cfg_mylang) ==
    LET code == CodeLower(rq.code)
        fam == rq.family
    IN  IF code \in DOMAIN fam.obsolete
        THEN IF fam.obsolete[code] # <<>>
             THEN [status |-> "ok", code |-> Replacement(fam, code),
                   obsolete |-> FALSE, mylang |-> cfg_mylang]
             ELSE [status |-> "ok", code |-> code,
                   obsolete |-> TRUE, mylang |-> cfg_mylang]
        ELSE IF code \notin fam.langs
             THEN IF SingleLanguage(fam)
                  THEN [status |-> "ok", code |-> fam.name, obsolete |-> FALSE,
                        mylang |-> IF rq.is_default_family /\ code = cfg_mylang
                                   THEN fam.name ELSE cfg_mylang]
                  ELSE [status |-> "UnknownSite", code |-> code,
                        obsolete |-> FALSE, mylang |-> cfg_mylang]
             ELSE [status |-> "ok", code |-> code,
                   obsolete |-> FALSE, mylang |-> cfg_mylang]

InitSite ==
    /\ request \in [code : StringsUpTo(CodeChars, MaxCodeLen),
                    family : Families,
                    is_default_family : BOOLEAN]
    /\ mylang \in MyLangs
    /\ site = NoSite

\* BaseSite(code, fam) is constructed.
BaseSite_init ==
    /\ site.status = "none"
    /\ LET r == BaseSiteInit(request, mylang)
       IN  /\ site' = [status |-> r.status, code |-> r.code,
                       obsolete |-> r.obsolete]
           /\ mylang' = r.mylang
    /\ UNCHANGED request
    /\ UNCHANGED <<lockVars, pickled, restored, titleVars>>

SiteInit == InitLock /\ InitPickle /\ InitNoTitles /\ InitSite

SiteSpec == SiteInit /\ [][BaseSite_init]_vars

\* What the claims say of a request, in the words of the specification.
Requested == Lower(request.code)

IsAlias == Requested \in DOMAIN request.family.obsolete

HasReplacement == IsAlias /\ request.family.obsolete[Requested] # <<>>

\* The working code: the lowercased code, or the replacement of an alias.
WorkingCode ==
    IF HasReplacement THEN request.family.obsolete[Requested][1] ELSE Requested

Shortcut ==
    /\ Cardinality(request.family.langs) = 1
    /\ request.family.langs = {request.family.name}

IsLowercase(str) == \A i \in 1 .. Len(str) : str[i] = LowerChar(str[i])

Constructed == site.status = "ok"

Failed == site.status = "UnknownSite"

\* C5: construction fails exactly when the site is not obsolete, the working
\* code (after replacement of an alias) is no valid language, and the family
\* has no single-language shortcut.
C5_FailsIffWorkingCodeInvalid ==
    site.status # "none" =>
        (Failed <=>
            /\ ~(IsAlias /\ ~HasReplacement)
            /\ WorkingCode \notin request.family.langs
            /\ ~Shortcut)

\* C5 as amended: construction fails exactly when the lowercased code is no
\* key of the obsolete dict, is no valid language, and the family has no
\* single-language shortcut; the replacement of an alias is not validated.
C5_FailsIffUnknownAndNoAlias ==
    site.status # "none" =>
        (Failed <=>
            /\ ~IsAlias
            /\ Requested \notin request.family.langs
            /\ ~Shortcut)

\* C5 witness: a site is made from an alias whose replacement is no valid
\* language, in a family without the shortcut.
C5_Witness ==
    /\ Constructed
    /\ HasReplacement
    /\ WorkingCode \notin request.family.langs
    /\ ~Shortcut

\* C6: a constructed site has the replacement of an alias as its code; is
\* obsolete with the lowercased alias as its code when the alias has no
\* replacement; keeps a valid code; and has the family name as its code when
\* the code is unknown and the family has the single-language shortcut.
C6_ReferenceResolution ==
    Constructed =>
        /\ HasReplacement =>
              site.code = request.family.obsolete[Requested][1] /\ ~site.obsolete
        /\ (IsAlias /\ ~HasReplacement) =>
              site.code = Requested /\ site.obsolete
        /\ (~IsAlias /\ Requested \in request.family.langs) =>
              site.code = Requested /\ ~site.obsolete
        /\ (~IsAlias /\ Requested \notin request.family.langs) =>
              site.code = request.family.name /\ ~site.obsolete /\ Shortcut

\* C6 witness: a site made from an uppercase alias with a replacement.
C6_Witness ==
    /\ Constructed
    /\ request.code # Requested
    /\ HasReplacement
    /\ site.code # Requested

\* C10: the code of a constructed site is lowercase.
C10_CodeLowercase == Constructed => IsLowercase(site.code)

\* C10 as amended: the code of a constructed site is lowercase when it is
\* the requested code (kept, or marked obsolete); otherwise it is the
\* replacement of the alias or the family name as the family gives them,
\* lowercase or not.
C10_CodeLowercaseOrFamilyData ==
    Constructed =>
        /\ ~HasReplacement /\ (IsAlias \/ Requested \in request.family.langs)
              => IsLowercase(site.code)
        /\ ~IsLowercase(site.code) =>
              \/ HasReplacement /\ site.code = request.family.obsolete[Requested][1]
              \/ ~IsAlias /\ site.code = request.family.name

\* C10 witness: a site whose code was requested in uppercase and kept.
C10_Witness ==
    /\ Constructed
    /\ request.code # Requested
    /\ ~IsAlias
    /\ site.code = Requested

----------------------------------------------------------------------------
\* BaseSite.sametitle.  A title is a sequence of characters.

\* Longest title compared.
MaxTitleLen == 3

TitleChars == {"a", "A", "t", ":", "_", " "}

TitleStrings == StringsUpTo(TitleChars, MaxTitleLen)

\* The namespaces of the site (self.namespaces): the main namespace, whose
\* name is empty, one more namespace with case 'first-letter' and one with
\* case 'case-sensitive'.  Names are kept in lowercase.
Namespaces ==
    {[id |-> 0, names |-> {<<>>}, case |-> "first-letter"],
     [id |-> 10, names |-> {<<"t">>}, case |-> "first-letter"],
     [id |-> 2302, names |-> {<<"a">>}, case |-> "case-sensitive"]}

\* self.namespaces[0]
DefaultNamespace == CHOOSE ns \in Namespaces : ns.id = 0

IsBlank(c) == c = " " \/ c = "_"

RECURSIVE DropBlanks(_)
DropBlanks(str) ==
    IF str # <<>> /\ IsBlank(Head(str)) THEN DropBlanks(Tail(str)) ELSE str

\* re.sub(r'[_ ]+', ' ', title)
RECURSIVE CollapseBlanks(_)
CollapseBlanks(str) ==
    IF str = <<>> THEN <<>>
    ELSE IF IsBlank(Head(str))
         THEN <<" ">> \o CollapseBlanks(DropBlanks(Tail(str)))
         ELSE <<Head(str)>> \o CollapseBlanks(Tail(str))

\* str.strip()
RECURSIVE Strip(_)
Strip(str) ==
    IF str = <<>> THEN <<>>
    ELSE IF Head(str) = " " THEN Strip(Tail(str))
    ELSE IF str[Len(str)] = " " THEN Strip(SubSeq(str, 1, Len(str) - 1))
    ELSE str

\* title.partition(':'): the text before the first colon, the colon (or
\* nothing when there is none), and the text after it.
Partition(str) ==
    LET colons == {i \in 1 .. Len(str) : str[i] = ":"}
    IN  IF colons = {}
        THEN [ns |-> str, delim |-> <<>>, name |-> <<>>]
        ELSE LET k == CHOOSE i \in colons : \A j \in colons : i <= j
             IN  [ns |-> SubSeq(str, 1, k - 1),
                  delim |-> <<":">>,
                  name |-> SubSeq(str, k + 1, Len(str))]

\* self.namespaces.lookup_name(name): <<the namespace>> one of whose names
\* is the stripped, lowercased name, or <<>> (None).
lookup_name(name) ==
    LET found == {ns \in Namespaces : Lower(Strip(name)) \in ns.names}
    IN  IF found = {} THEN <<>> ELSE <<CHOOSE ns \in found : TRUE>>

\* pywikibot.tools.first_upper: the first character in uppercase.
first_upper(str) ==
    IF str = <<>> THEN <<>> ELSE <<UpperChar(Head(str))>> \o Tail(str)

\* ns_split of sametitle: <<namespace, name>>.
ns_split(title) ==
    LET p == Partition(title)
        ns == IF p.delim # <<>> THEN lookup_name(p.ns) ELSE <<>>
    IN  IF p.delim = <<>> \/ ns = <<>>
        THEN <<DefaultNamespace, title>>
        ELSE <<ns[1], p.name>>

\* A comparison that skips the namespaces.
NamespacesNotCompared(ns1, ns2) == FALSE

\* Line 419: the pages are in different namespaces.

DifferentNamespaces(ns1, ns2) == ns1 # ns2

sametitle(title1, title2) ==
    LET t1 == CollapseBlanks(title1)
        t2 == CollapseBlanks(title2)
        s1 == ns_split(t1)
        s2 == ns_split(t2)
        name1 == Strip(s1[2])
        name2 == Strip(s2[2])
    IN  IF t1 = t2 THEN TRUE
        ELSE IF DifferentNamespaces(s1[1], s2[1]) THEN FALSE
        ELSE IF s1[1].case = "first-letter"
             THEN first_upper(name1) = first_upper(name2)
             ELSE name1 = name2

InitTitles ==
    /\ titles \in TitleStrings \X TitleStrings
    /\ same = <<>>

\* sametitle is called on the two titles, in both orders.
CallSameTitle ==
    /\ same = <<>>
    /\ same' = <<sametitle(titles[1], titles[2]), sametitle(titles[2], titles[1])>>
    /\ UNCHANGED titles
    /\ UNCHANGED <<lockVars, pickled, restored, siteVars>>

TitleInit == InitLock /\ InitPickle /\ InitNoSite /\ InitTitles

TitleSpec == TitleInit /\ [][CallSameTitle]_vars

\* C7: sametitle gives the same answer for both orders of two titles, and
\* True for a title and itself.
C7_SymmetricReflexive ==
    same # <<>> =>
        /\ same[1] = same[2]
        /\ titles[1] = titles[2] => same[1]

\* C7 witness: two different titles with a namespace prefix are the same
\* page in both orders.
C7_Witness ==
    /\ same = <<TRUE, TRUE>>
    /\ CollapseBlanks(titles[1]) # CollapseBlanks(titles[2])
    /\ Partition(titles[1]).delim # <<>>
    /\ Partition(titles[2]).delim # <<>>
    /\ ns_split(CollapseBlanks(titles[1]))[1].id # 0
    /\ Strip(ns_split(CollapseBlanks(titles[1]))[2])
          # Strip(ns_split(CollapseBlanks(titles[2]))[2])

====
